---- MODULE Spec2Model ----
(***************************************************************************)
(* Model of InfluxDB/predictive_maintenance_setup.py: the script that      *)
(* starts an InfluxDB container, patches appsettings.json, installs the    *)
(* Angular packages, builds the solution and launches the API and the      *)
(* client until Ctrl+C.                                                    *)
(*                                                                         *)
(* One action per statement of the script; KeyboardInterrupt can be        *)
(* delivered between any two statements.  External tools are mocked:       *)
(* every call is appended to `calls` with the exit code it returned.       *)
(***************************************************************************)
EXTENDS Integers, Sequences, FiniteSets, TLC

\* ------------------------------------------------------------------ bounds
\* Members in the text of the configuration object the script starts from.
MaxMembers == 2
\* Ctrl+C deliveries in one run of the script.
MaxInterrupts == 2
\* Runs of the script, one after the other, on the same machine.
MaxRuns == 2
\* Iterations of the keep-alive loop.
MaxTicks == 2

\* --------------------------------------------------------------- constants
\* json.dump(settings, f, indent=2)
Indent == 2
ClientDir == "predictivemaintenance.client"

\* ------------------------------------------------------------- JSON values
Num(n) == [type |-> "number", num |-> n, fields |-> <<>>]
Obj(fs) == [type |-> "object", num |-> 0, fields |-> fs]
Field(k, s) == [key |-> k, str |-> s]

\* The literal assigned to settings['InfluxDB'].
InfluxDBSettings ==
    Obj(<< Field("Url", "http://localhost:8086"),
           Field("Username", "admin"),
           Field("Password", "password123"),
           Field("Database", "equipment_monitoring") >>)

\* An InfluxDB section some earlier tool or hand edit left in the file.
StaleInfluxDB ==
    Obj(<< Field("Url", "http://influx.lan:9999"), Field("Token", "s3cr3t") >>)

Keys == {"Foo", "InfluxDB"}
Values == {Num(1), StaleInfluxDB, InfluxDBSettings}
Member(k, v) == [key |-> k, value |-> v]
Members == {Member(k, v) : k \in Keys, v \in Values}

\* Texts of a JSON object: members in textual order, names may repeat.
ObjectTexts == UNION {[1..n -> Members] : n \in 0..MaxMembers}

\* --------------------------------------------------------- the file system
\* Content of PredictiveMaintenance.API/appsettings.json.
FileOf(kind, members, indent) ==
    [kind |-> kind, members |-> members, indent |-> indent]
Missing == FileOf("missing", <<>>, 0)
Garbage == FileOf("invalid", <<>>, 0)
Empty == FileOf("empty", <<>>, 0)
ArrayDoc == FileOf("array", <<>>, 0)
ObjectDoc(members, indent) == FileOf("object", members, indent)

InitialFiles ==
    {Missing, Garbage, Empty, ArrayDoc}
        \cup {ObjectDoc(m, i) : m \in ObjectTexts, i \in {Indent, 2 * Indent}}

\* ------------------------------------------------------------ Python dicts
\* A dict is the sequence of its items in insertion order, keys distinct.
IndexOf(d, k) ==
    IF \E i \in 1..Len(d) : d[i].key = k
    THEN CHOOSE i \in 1..Len(d) : d[i].key = k
    ELSE 0

HasKey(d, k) == IndexOf(d, k) # 0

Get(d, k) == d[IndexOf(d, k)].value

\* Variant: d[k] = v that never looks for the key (a list of pairs).
dict_setitem_append(d, k, v) == Append(d, Member(k, v))

\* d[k] = v: an existing key keeps its place and takes the new value, a new
\* key goes last.
dict_setitem(d, k, v) ==
    IF HasKey(d, k)
    THEN [d EXCEPT ![IndexOf(d, k)] = Member(k, v)]
    ELSE Append(d, Member(k, v))

\* The dict the JSON decoder builds from an object's members, left to right.
RECURSIVE dict_of_pairs(_)
dict_of_pairs(ms) ==
    IF ms = <<>>
    THEN <<>>
    ELSE LET n == Len(ms)
         IN  dict_setitem(dict_of_pairs(SubSeq(ms, 1, n - 1)), ms[n].key, ms[n].value)

\* json.load(f) of a file that holds valid JSON.
NoSettings == [type |-> "none", items |-> <<>>]
json_load(f) ==
    IF f.kind = "object"
    THEN [type |-> "dict", items |-> dict_of_pairs(f.members)]
    ELSE [type |-> "list", items |-> <<>>]

\* Variant: settings = {'InfluxDB': {...}}, the rest of the document lost.
set_influxdb_only(s) ==
    [s EXCEPT !.items = << Member("InfluxDB", InfluxDBSettings) >>]

\* settings['InfluxDB'] = {...} on a dict.
set_influxdb(s) ==
    [s EXCEPT !.items = dict_setitem(s.items, "InfluxDB", InfluxDBSettings)]

\* json.dump(settings, f, indent=2) into the truncated file.
json_dump(s) == ObjectDoc(s.items, Indent)

\* ---------------------------------------------------- the working directory
\* cwd is the path from the directory the script was started in.
chdir(dir, path) ==
    IF path = ".."
    THEN IF dir = <<>> THEN dir ELSE SubSeq(dir, 1, Len(dir) - 1)
    ELSE Append(dir, path)

\* ------------------------------------------------------------------- state
VARIABLES
    pc,             \* the statement the script is about to execute
    file,           \* appsettings.json
    settings,       \* local variable of setup_influxdb
    cwd,            \* os.getcwd(), relative to the start directory
    container,      \* a container named influxdb3 exists
    clientDir,      \* the directory predictivemaintenance.client exists
    calls,          \* the external calls of this run, in order
    api_process,    \* "unset", "spawned" or "terminated"
    client_process, \* "unset", "spawned" or "terminated"
    exc,            \* the uncaught exception that ended the run, or "none"
    crashAt,        \* the statement that raised it
    sigints,        \* the statements at which Ctrl+C was delivered
    ticks,          \* iterations of the keep-alive loop
    run,            \* number of this run
    file0,          \* appsettings.json when this run started
    prevPatched     \* the previous run completed its json.dump

vars ==
    << pc, file, settings, cwd, container, clientDir, calls, api_process,
       client_process, exc, crashAt, sigints, ticks, run, file0, prevPatched >>

SetupPcs == {"docker_run", "json_load", "setitem", "open_w", "json_dump"}
InstallPcs == {"npm_chdir", "npm_install", "npm_chdir_back"}
LaunchPcs ==
    {"dotnet_build", "popen_api", "sleep5", "client_chdir", "popen_client",
     "banner", "running", "except_api", "except_client"}
Terminal == {"done", "crashed"}

Call(cmd, rc) == [cmd |-> cmd, rc |-> rc]
Called(cmd) == \E i \in 1..Len(calls) : calls[i].cmd = cmd
Failed(cmd) == \E i \in 1..Len(calls) : calls[i].cmd = cmd /\ calls[i].rc # 0
Count(cmd) == Cardinality({i \in 1..Len(calls) : calls[i].cmd = cmd})
Cmds == [i \in 1..Len(calls) |-> calls[i].cmd]

Init ==
    /\ pc = "docker_run"
    /\ file \in InitialFiles
    /\ file0 = file
    /\ settings = NoSettings
    /\ cwd = <<>>
    /\ container \in BOOLEAN
    /\ clientDir \in BOOLEAN
    /\ calls = <<>>
    /\ api_process = "unset"
    /\ client_process = "unset"
    /\ exc = "none"
    /\ crashAt = "none"
    /\ sigints = <<>>
    /\ ticks = 0
    /\ run = 1
    /\ prevPatched = FALSE

\* An exception nothing catches: the traceback is printed and the script ends.
Raise(e) ==
    /\ pc' = "crashed"
    /\ exc' = e
    /\ crashAt' = pc

NoRaise == UNCHANGED << exc, crashAt >>

\* ---------------------------------------------------------- setup_influxdb
\* Variant: subprocess.run([...], check=True).
DockerRun_Checked ==
    /\ pc = "docker_run"
    /\ \/ /\ container
          /\ calls' = Append(calls, Call("docker_run", 1))
          /\ Raise("CalledProcessError")
          /\ UNCHANGED container
       \/ /\ ~container
          /\ \/ /\ calls' = Append(calls, Call("docker_run", 0))
                /\ container' = TRUE
                /\ pc' = "json_load"
                /\ NoRaise
             \/ /\ calls' = Append(calls, Call("docker_run", 1))
                /\ Raise("CalledProcessError")
                /\ UNCHANGED container
             \/ /\ Raise("FileNotFoundError")
                /\ UNCHANGED << calls, container >>
    /\ UNCHANGED << file, settings, cwd, clientDir, api_process, client_process,
                    sigints, ticks, run, file0, prevPatched >>

\* subprocess.run(["docker", "run", "-d", "--name", "influxdb3", ...]): the
\* return code is not looked at; only a missing executable raises.  docker
\* refuses (non-zero) a name that is taken, and may refuse for other reasons.
DockerRun ==
    /\ pc = "docker_run"
    /\ \/ /\ container
          /\ calls' = Append(calls, Call("docker_run", 1))
          /\ pc' = "json_load"
          /\ NoRaise
          /\ UNCHANGED container
       \/ /\ ~container
          /\ \/ /\ calls' = Append(calls, Call("docker_run", 0))
                /\ container' = TRUE
                /\ pc' = "json_load"
                /\ NoRaise
             \/ /\ calls' = Append(calls, Call("docker_run", 1))
                /\ pc' = "json_load"
                /\ NoRaise
                /\ UNCHANGED container
             \/ /\ Raise("FileNotFoundError")
                /\ UNCHANGED << calls, container >>
    /\ UNCHANGED << file, settings, cwd, clientDir, api_process, client_process,
                    sigints, ticks, run, file0, prevPatched >>

\* Variant: a file that cannot be read or parsed counts as {}.
JsonLoad_DefaultEmpty ==
    /\ pc = "json_load"
    /\ settings' = IF file.kind \in {"object", "array"}
                   THEN json_load(file)
                   ELSE [type |-> "dict", items |-> <<>>]
    /\ pc' = "setitem"
    /\ NoRaise
    /\ UNCHANGED << file, cwd, container, clientDir, calls, api_process,
                    client_process, sigints, ticks, run, file0, prevPatched >>

\* with open(..., 'r') as f: settings = json.load(f)
JsonLoad ==
    /\ pc = "json_load"
    /\ \/ /\ file.kind = "missing"
          /\ Raise("FileNotFoundError")
          /\ UNCHANGED settings
       \/ /\ file.kind \in {"invalid", "empty"}
          /\ Raise("JSONDecodeError")
          /\ UNCHANGED settings
       \/ /\ file.kind \in {"object", "array"}
          /\ settings' = json_load(file)
          /\ pc' = "setitem"
          /\ NoRaise
    /\ UNCHANGED << file, cwd, container, clientDir, calls, api_process,
                    client_process, sigints, ticks, run, file0, prevPatched >>

\* settings['InfluxDB'] = {...}: a list takes no string index.
SetItem ==
    /\ pc = "setitem"
    /\ \/ /\ settings.type = "dict"
          /\ settings' = set_influxdb(settings)
          /\ pc' = "open_w"
          /\ NoRaise
       \/ /\ settings.type # "dict"
          /\ Raise("TypeError")
          /\ UNCHANGED settings
    /\ UNCHANGED << file, cwd, container, clientDir, calls, api_process,
                    client_process, sigints, ticks, run, file0, prevPatched >>

\* open(..., 'w'): truncates the file, or raises when it may not be written.
OpenW ==
    /\ pc = "open_w"
    /\ \/ /\ file' = Empty
          /\ pc' = "json_dump"
          /\ NoRaise
       \/ /\ Raise("PermissionError")
          /\ UNCHANGED file
    /\ UNCHANGED << settings, cwd, container, clientDir, calls, api_process,
                    client_process, sigints, ticks, run, file0, prevPatched >>

\* json.dump(settings, f, indent=2) and the close of the file.
JsonDump ==
    /\ pc = "json_dump"
    /\ file' = json_dump(settings)
    /\ pc' = "npm_chdir"
    /\ NoRaise
    /\ UNCHANGED << settings, cwd, container, clientDir, calls, api_process,
                    client_process, sigints, ticks, run, file0, prevPatched >>

\* ----------------------------------------------------- ensure_npm_packages
\* os.chdir("predictivemaintenance.client")
NpmChdir ==
    /\ pc = "npm_chdir"
    /\ \/ /\ clientDir /\ cwd = <<>>
          /\ cwd' = chdir(cwd, ClientDir)
          /\ pc' = "npm_install"
          /\ NoRaise
       \/ /\ ~(clientDir /\ cwd = <<>>)
          /\ Raise("FileNotFoundError")
          /\ UNCHANGED cwd
    /\ UNCHANGED << file, settings, container, clientDir, calls, api_process,
                    client_process, sigints, ticks, run, file0, prevPatched >>

\* Variant: subprocess.run(["npm", "install"], check=True).
NpmInstall_Checked ==
    /\ pc = "npm_install"
    /\ \/ /\ calls' = Append(calls, Call("npm_install", 0))
          /\ pc' = "npm_chdir_back"
          /\ NoRaise
       \/ /\ calls' = Append(calls, Call("npm_install", 1))
          /\ Raise("CalledProcessError")
       \/ /\ Raise("FileNotFoundError")
          /\ UNCHANGED calls
    /\ UNCHANGED << file, settings, cwd, container, clientDir, api_process,
                    client_process, sigints, ticks, run, file0, prevPatched >>

\* subprocess.run(["npm", "install"]): the return code is not looked at.
NpmInstall ==
    /\ pc = "npm_install"
    /\ \/ \E rc \in {0, 1} :
            /\ calls' = Append(calls, Call("npm_install", rc))
            /\ pc' = "npm_chdir_back"
            /\ NoRaise
       \/ /\ Raise("FileNotFoundError")
          /\ UNCHANGED calls
    /\ UNCHANGED << file, settings, cwd, container, clientDir, api_process,
                    client_process, sigints, ticks, run, file0, prevPatched >>

\* os.chdir("..")
NpmChdirBack ==
    /\ pc = "npm_chdir_back"
    /\ cwd' = chdir(cwd, "..")
    /\ pc' = "dotnet_build"
    /\ NoRaise
    /\ UNCHANGED << file, settings, container, clientDir, calls, api_process,
                    client_process, sigints, ticks, run, file0, prevPatched >>

\* ----------------------------------------------------------- build_and_run
\* subprocess.run(["dotnet", "build"]): the return code is not looked at.
DotnetBuild ==
    /\ pc = "dotnet_build"
    /\ \/ \E rc \in {0, 1} :
            /\ calls' = Append(calls, Call("dotnet_build", rc))
            /\ pc' = "popen_api"
            /\ NoRaise
       \/ /\ Raise("FileNotFoundError")
          /\ UNCHANGED calls
    /\ UNCHANGED << file, settings, cwd, container, clientDir, api_process,
                    client_process, sigints, ticks, run, file0, prevPatched >>

\* api_process = subprocess.Popen(["dotnet", "run", "--project", ...])
PopenApi ==
    /\ pc = "popen_api"
    /\ calls' = Append(calls, Call("popen_api", 0))
    /\ api_process' = "spawned"
    /\ pc' = "sleep5"
    /\ NoRaise
    /\ UNCHANGED << file, settings, cwd, container, clientDir, client_process,
                    sigints, ticks, run, file0, prevPatched >>

\* Variant: the delay left out.
Sleep5_Skipped ==
    /\ pc = "sleep5"
    /\ pc' = "client_chdir"
    /\ NoRaise
    /\ UNCHANGED << file, settings, cwd, container, clientDir, calls,
                    api_process, client_process, sigints, ticks, run, file0,
                    prevPatched >>

\* time.sleep(5)
Sleep5 ==
    /\ pc = "sleep5"
    /\ calls' = Append(calls, Call("sleep5", 0))
    /\ pc' = "client_chdir"
    /\ NoRaise
    /\ UNCHANGED << file, settings, cwd, container, clientDir, api_process,
                    client_process, sigints, ticks, run, file0, prevPatched >>

\* os.chdir("predictivemaintenance.client")
ClientChdir ==
    /\ pc = "client_chdir"
    /\ \/ /\ clientDir /\ cwd = <<>>
          /\ cwd' = chdir(cwd, ClientDir)
          /\ pc' = "popen_client"
          /\ NoRaise
       \/ /\ ~(clientDir /\ cwd = <<>>)
          /\ Raise("FileNotFoundError")
          /\ UNCHANGED cwd
    /\ UNCHANGED << file, settings, container, clientDir, calls, api_process,
                    client_process, sigints, ticks, run, file0, prevPatched >>

\* client_process = subprocess.Popen(["npm", "start"])
PopenClient ==
    /\ pc = "popen_client"
    /\ \/ /\ calls' = Append(calls, Call("popen_client", 0))
          /\ client_process' = "spawned"
          /\ pc' = "banner"
          /\ NoRaise
       \/ /\ Raise("FileNotFoundError")
          /\ UNCHANGED << calls, client_process >>
    /\ UNCHANGED << file, settings, cwd, container, clientDir, api_process,
                    sigints, ticks, run, file0, prevPatched >>

\* The five print calls; the try statement is entered after them.
Banner ==
    /\ pc = "banner"
    /\ pc' = "running"
    /\ NoRaise
    /\ UNCHANGED << file, settings, cwd, container, clientDir, calls,
                    api_process, client_process, sigints, ticks, run, file0,
                    prevPatched >>

\* while True: time.sleep(1)
LoopSleep ==
    /\ pc = "running"
    /\ ticks < MaxTicks
    /\ ticks' = ticks + 1
    /\ UNCHANGED << pc, file, settings, cwd, container, clientDir, calls,
                    api_process, client_process, exc, crashAt, sigints, run,
                    file0, prevPatched >>

\* Ctrl+C.  Inside the try statement the except clause takes it; anywhere
\* else, the except clause included, nothing catches it.
KeyboardInterrupt ==
    /\ pc \notin Terminal
    /\ Len(sigints) < MaxInterrupts
    /\ sigints' = Append(sigints, pc)
    /\ IF pc = "running"
       THEN pc' = "except_api" /\ NoRaise
       ELSE Raise("KeyboardInterrupt")
    /\ UNCHANGED << file, settings, cwd, container, clientDir, calls,
                    api_process, client_process, ticks, run, file0, prevPatched >>

\* Variant: the except clause ends after api_process.terminate().
TerminateApi_Only ==
    /\ pc = "except_api"
    /\ calls' = Append(calls, Call("terminate_api", 0))
    /\ api_process' = "terminated"
    /\ pc' = "done"
    /\ NoRaise
    /\ UNCHANGED << file, settings, cwd, container, clientDir, client_process,
                    sigints, ticks, run, file0, prevPatched >>

\* api_process.terminate()
TerminateApi ==
    /\ pc = "except_api"
    /\ calls' = Append(calls, Call("terminate_api", 0))
    /\ api_process' = "terminated"
    /\ pc' = "except_client"
    /\ NoRaise
    /\ UNCHANGED << file, settings, cwd, container, clientDir, client_process,
                    sigints, ticks, run, file0, prevPatched >>

\* client_process.terminate(); build_and_run returns and the script ends.
TerminateClient ==
    /\ pc = "except_client"
    /\ calls' = Append(calls, Call("terminate_client", 0))
    /\ client_process' = "terminated"
    /\ pc' = "done"
    /\ NoRaise
    /\ UNCHANGED << file, settings, cwd, container, clientDir, api_process,
                    sigints, ticks, run, file0, prevPatched >>

\* ------------------------------------------------------------------ __main__
\* json.dump has completed in this run.
PatchDone ==
    \/ pc \in InstallPcs \cup LaunchPcs \cup {"done"}
    \/ pc = "crashed" /\ crashAt \notin SetupPcs

\* The script is started again, from the same directory: a new process with
\* new locals; the file, the container and the directory are what is left.
Rerun ==
    /\ pc \in Terminal
    /\ run < MaxRuns
    /\ run' = run + 1
    /\ prevPatched' = PatchDone
    /\ file0' = file
    /\ pc' = "docker_run"
    /\ settings' = NoSettings
    /\ cwd' = <<>>
    /\ calls' = <<>>
    /\ api_process' = "unset"
    /\ client_process' = "unset"
    /\ exc' = "none"
    /\ crashAt' = "none"
    /\ sigints' = <<>>
    /\ ticks' = 0
    /\ UNCHANGED << file, container, clientDir >>

Next ==
    \/ DockerRun
    \/ JsonLoad
    \/ SetItem
    \/ OpenW
    \/ JsonDump
    \/ NpmChdir
    \/ NpmInstall
    \/ NpmChdirBack
    \/ DotnetBuild
    \/ PopenApi
    \/ Sleep5
    \/ ClientChdir
    \/ PopenClient
    \/ Banner
    \/ LoopSleep
    \/ KeyboardInterrupt
    \/ TerminateApi
    \/ TerminateClient
    \/ Rerun

Spec == Init /\ [][Next]_vars

\* ------------------------------------------------------------------ claims
\* The value JSON gives a name of an object text: that of its last member.
LastValue(ms, k) ==
    ms[CHOOSE i \in 1..Len(ms) :
          /\ ms[i].key = k
          /\ \A j \in (i + 1)..Len(ms) : ms[j].key # k].value

Names(ms) == {ms[i].key : i \in 1..Len(ms)}

FourFields(v) ==
    /\ v.type = "object"
    /\ Len(v.fields) = 4
    /\ {v.fields[i] : i \in 1..4} =
          { Field("Url", "http://localhost:8086"), Field("Username", "admin"),
            Field("Password", "password123"),
            Field("Database", "equipment_monitoring") }

\* C1: once the patch step of a run has written the file, and the run
\* started from a JSON object D, the file is a JSON object in which every
\* name occurs once, every name of D other than InfluxDB has the value it
\* had in D, no other name was added, and InfluxDB is exactly the four
\* connection fields.
C1_PatchKeepsOtherKeys ==
    (PatchDone /\ file0.kind = "object") =>
        /\ file.kind = "object"
        /\ Names(file.members) = Names(file0.members) \cup {"InfluxDB"}
        /\ Len(file.members) = Cardinality(Names(file.members))
        /\ \A k \in Names(file0.members) \ {"InfluxDB"} :
              LastValue(file.members, k) = LastValue(file0.members, k)
        /\ FourFields(LastValue(file.members, "InfluxDB"))

\* The scenario of the specification: {"Foo": 1} has been patched.
C1_Witness ==
    /\ PatchDone
    /\ file0 = ObjectDoc(<< Member("Foo", Num(1)) >>, 2 * Indent)
    /\ file = ObjectDoc(<< Member("Foo", Num(1)),
                           Member("InfluxDB", InfluxDBSettings) >>, Indent)

\* C2: when a run patches the file that the run before it had patched, the
\* file it writes is, byte for byte, the file it read.
C2_PatchIdempotent ==
    (run > 1 /\ prevPatched /\ PatchDone) => file = file0

\* A second patch of a file whose first patch replaced a stale section.
C2_Witness ==
    /\ run = 2
    /\ prevPatched
    /\ PatchDone
    /\ file = ObjectDoc(<< Member("InfluxDB", InfluxDBSettings),
                           Member("Foo", Num(1)) >>, Indent)

\* C3: a run that starts with the file missing, or holding invalid JSON,
\* never gets past the load: it ends with an exception raised there (or
\* before), the file is as it was (a missing file stays missing), and no
\* call of a later stage is made.
C3_BadFileFails ==
    file0.kind \in {"missing", "invalid", "empty"} =>
        /\ file = file0
        /\ pc \in {"docker_run", "json_load", "crashed"}
        /\ pc = "crashed" => crashAt \in {"docker_run", "json_load"}
        /\ \A i \in 1..Len(calls) : calls[i].cmd = "docker_run"
        /\ api_process = "unset" /\ client_process = "unset"

C3_Witness ==
    /\ file0 = Missing
    /\ file = Missing
    /\ pc = "crashed"
    /\ crashAt = "json_load"
    /\ exc = "FileNotFoundError"

AllSucceeded == \A i \in 1..Len(calls) : calls[i].rc = 0

IsPrefix(s, t) == Len(s) <= Len(t) /\ s = SubSeq(t, 1, Len(s))

StartupCalls ==
    << "docker_run", "npm_install", "dotnet_build", "popen_api", "sleep5",
       "popen_client" >>

\* C4: in a run in which every tool succeeds the calls made so far are an
\* initial part of: container-create, install, build, backend spawn, delay,
\* front-end spawn (then the two terminations); when the run loop is reached
\* all six have been made, each once.
C4_StartupOrder ==
    AllSucceeded =>
        /\ IsPrefix(Cmds, StartupCalls \o << "terminate_api", "terminate_client" >>)
        /\ pc \in {"banner", "running", "except_api", "except_client", "done"}
              => Len(calls) >= Len(StartupCalls)

C4_Witness ==
    /\ pc = "running"
    /\ AllSucceeded
    /\ Cmds = StartupCalls
    /\ Count("popen_api") = 1
    /\ Count("popen_client") = 1

Terminations ==
    SelectSeq(Cmds, LAMBDA c : c \in {"terminate_api", "terminate_client"})

\* C5: after one Ctrl+C delivered in the run loop, the except clause
\* requests the backend's termination, then the front-end's, and the run is
\* done with exactly these two requests; from the except clause on the run
\* loop is not entered again.
C5_InterruptInRunLoop ==
    /\ [](sigints = << "running" >> =>
            /\ pc \in {"except_api", "except_client", "done"}
            /\ pc = "except_api" => Terminations = <<>>
            /\ pc = "except_client" => Terminations = << "terminate_api" >>
            /\ pc = "done" =>
                  Terminations = << "terminate_api", "terminate_client" >>)
    /\ [][(pc \in {"except_api", "except_client", "done"}) => (pc' # "running")]_vars

C5_Witness ==
    /\ sigints = << "running" >>
    /\ pc = "done"
    /\ Terminations = << "terminate_api", "terminate_client" >>
    /\ api_process = "terminated"
    /\ client_process = "terminated"

\* C6: after a build that exited non-zero, neither process is spawned.
C6_BuildFailureAborts ==
    Failed("dotnet_build") =>
        /\ ~Called("popen_api")
        /\ ~Called("popen_client")

\* docker run was refused because the name influxdb3 was taken.
Collision == Failed("docker_run") /\ container

C8_InstallFailureIgnored ==
    Failed("npm_install") =>
        /\ pc \in {"npm_chdir_back"} \cup LaunchPcs \cup Terminal
        /\ pc = "dotnet_build" => cwd = <<>>
        /\ pc = "crashed" =>
              /\ crashAt \in {"npm_chdir_back"} \cup LaunchPcs
              /\ crashAt = "npm_chdir_back" => exc = "KeyboardInterrupt"
        /\ pc \in {"banner", "running"} =>
              /\ Called("dotnet_build")
              /\ Called("popen_api")
              /\ Called("popen_client")

C8_Witness ==
    /\ Failed("npm_install")
    /\ pc = "running"
    /\ api_process = "spawned"
    /\ client_process = "spawned"

\* C9: after the install step, and from the front-end spawn on (run loop,
\* shutdown, end of the script), the working directory is the start
\* directory.
C9_CwdRestored ==
    pc \in {"dotnet_build", "banner", "running", "except_api", "except_client",
            "done"}
        => cwd = <<>>

\* C10: a run that one Ctrl+C has ended leaves no spawned child without a
\* termination request.
C10_ChildrenTerminatedOnInterrupt ==
    (pc \in Terminal /\ Len(sigints) = 1) =>
        /\ api_process # "spawned"
        /\ client_process # "spawned"

====
